---- MODULE Spec2Model ----
(***************************************************************************)
(* Model of the COMMONprotocol relay server (src/internal/server.py).      *)
(*                                                                         *)
(* One asyncio task runs handle_agent_connection per websocket.  asyncio   *)
(* is cooperative: a task runs without interruption from one "await" that  *)
(* really suspends to the next.  The suspension points of the handler are  *)
(* websocket.recv(), the "async for" over the websocket, and every         *)
(* websocket.send().  "await register_agent(...)" and                      *)
(* "await unregister_agent(...)" call a coroutine directly and do not      *)
(* suspend before the coroutine's own first suspension.  Each action below *)
(* is the code one task runs between two suspension points.                *)
(*                                                                         *)
(* send() writes the frame to the websocket's buffer when it is called and  *)
(* then suspends until the buffer has drained (flow control); it raises     *)
(* ConnectionClosed, writing nothing, when the transport of its websocket   *)
(* is closed.  A frame stays in the buffer until its send returns.          *)
(***************************************************************************)
EXTENDS Integers, Sequences, FiniteSets, TLC

\* ---------------------------------------------------------------- bounds
MaxConn == 3        \* websocket connections accepted by the server
MaxMsgs == 2        \* messages received by all receive loops together

Conns == 1..MaxConn
Ids == {"a", "b", "c"}          \* non-empty agent identifiers
NoneVal == "<None>"             \* Python None
Empty == ""                     \* the empty string
SHARED_SECRET == "secret"
BadToken == "wrong"

\* ------------------------------------------------------- wire messages
\* A message string is modelled by what json.loads makes of it: json is
\* "object" (a JSON object with the fields below; a field the object does
\* not have reads as NoneVal through dict.get), "array" (valid JSON that is
\* not an object, so .get raises AttributeError) or "invalid" (json.loads
\* raises JSONDecodeError).
Msg(j, t, s, r, c, a, k) ==
    [json |-> j, type |-> t, sender_id |-> s, receiver_id |-> r,
     content |-> c, agent_id |-> a, auth_token |-> k]

InvalidJson == Msg("invalid", NoneVal, NoneVal, NoneVal, NoneVal, NoneVal, NoneVal)
ArrayJson == Msg("array", NoneVal, NoneVal, NoneVal, NoneVal, NoneVal, NoneVal)
Register(a, k) == Msg("object", "AGENT_REGISTER", NoneVal, NoneVal, NoneVal, a, k)
Direct(s, r, c) == Msg("object", "AGENT_MESSAGE", s, r, c, NoneVal, NoneVal)
Broadcast(s, c) == Msg("object", "BROADCAST_MESSAGE", s, NoneVal, c, NoneVal, NoneVal)
ListRequest(s) == Msg("object", "LIST_AGENTS_REQUEST", s, NoneVal, NoneVal, NoneVal, NoneVal)
Unknown(s) == Msg("object", "PING", s, NoneVal, NoneVal, NoneVal, NoneVal)

\* What the server itself sends (json.dumps of a dict literal).
ServerInfo == [type |-> "SERVER_INFO", content |-> "welcome", agents |-> <<>>,
               requester_id |-> NoneVal]
ServerError(why) == [type |-> "SERVER_ERROR", content |-> why, agents |-> <<>>,
                     requester_id |-> NoneVal]
ListResponse(ags, req) == [type |-> "LIST_AGENTS_RESPONSE", content |-> NoneVal,
                           agents |-> ags, requester_id |-> req]

\* Python truthiness of a value read with dict.get: None and "" are falsy.
Truthy(v) == v # NoneVal /\ v # Empty

\* ------------------------------------------------------ the Python dict
\* CONNECTED_AGENTS is a CPython dict: an array of entries in insertion
\* order; "del" leaves a hole in place, a new key is appended at the end.
\* (The array is compacted only when it is full, after 5 insertions into a
\* fresh dict, which the bounds here do not reach.)
Hole == [key |-> NoneVal, value |-> 0]

RECURSIVE DictFind(_, _, _)
DictFind(d, k, i) ==
    IF i > Len(d) THEN 0
    ELSE IF d[i] # Hole /\ d[i].key = k THEN i
    ELSE DictFind(d, k, i + 1)

DictHas(d, k) == DictFind(d, k, 1) # 0                  \* k in d
DictGet(d, k) == d[DictFind(d, k, 1)].value             \* d[k]
DictSet(d, k, v) ==                                     \* d[k] = v
    IF DictHas(d, k)
    THEN [d EXCEPT ![DictFind(d, k, 1)] = [key |-> k, value |-> v]]
    ELSE Append(d, [key |-> k, value |-> v])
DictDel(d, k) == [d EXCEPT ![DictFind(d, k, 1)] = Hole] \* del d[k]
DictUsed(d) == Cardinality({i \in 1..Len(d) : d[i] # Hole})   \* len(d)
DictKeys(d) == SelectSeq(d, LAMBDA e : e # Hole)        \* list(d.items())

VARIABLES
    CONNECTED_AGENTS,   \* the registry dict
    pc,                 \* per connection: where its handler task is suspended
    agent_id,           \* per connection: the handler's local agent_id
    open,               \* per connection: transport still open
    outbox,             \* per connection: the frames in its write buffer, in order
    message,            \* per connection: the message being processed
    sending,            \* per connection: websocket of the pending send (0: none)
    iter,               \* per connection: dict iterator of the broadcast loop
    nrecv,              \* number of messages the receive loops have received
    bcast,              \* per connection, history of the broadcast loop it is in:
                        \* the registry when the loop began (snap) and the
                        \* websockets the broadcast was written to so far (rcpt)
    unregister_calls    \* per connection: calls of unregister_agent by its handler

vars == <<CONNECTED_AGENTS, pc, agent_id, open, outbox, message, sending, iter, nrecv,
          bcast, unregister_calls>>

NoIter == [pos |-> 0, used |-> 0, len |-> 0]
NoBcast == [snap |-> <<>>, rcpt |-> <<>>]

\* A frame written to a websocket: env is the payload, by the connection
\* whose handler task wrote it.
Frame(env, by) == [env |-> env, by |-> by]

\* The buffer b once the frame written by task c has drained.
Drained(b, c) == SelectSeq(b, LAMBDA f : f.by # c)

Init ==
    /\ CONNECTED_AGENTS = <<>>
    /\ pc = [c \in Conns |-> "auth_recv"]
    /\ agent_id = [c \in Conns |-> NoneVal]
    /\ open = [c \in Conns |-> TRUE]
    /\ outbox = [c \in Conns |-> <<>>]
    /\ message = [c \in Conns |-> NoneVal]
    /\ sending = [c \in Conns |-> 0]
    /\ iter = [c \in Conns |-> NoIter]
    /\ nrecv = 0
    /\ bcast = [c \in Conns |-> NoBcast]
    /\ unregister_calls = [c \in Conns |-> 0]

\* ------------------------------------------------------------ registry
\* register_agent up to its send: line 31.
register_agent_insert(d, ws, id) == DictSet(d, id, ws)

\* unregister_agent: lines 40-41.
unregister_agent_oldest(d, id) ==
    LET used == {i \in 1..Len(d) : d[i] # Hole}
    IN  IF used = {} THEN d
        ELSE [d EXCEPT ![CHOOSE i \in used : \A j \in used : i <= j] = Hole]
unregister_agent(d, id) == IF DictHas(d, id) THEN DictDel(d, id) ELSE d

\* The "finally" clause of handle_agent_connection: lines 169-171.
finally_registry_skipped(d, id) == d
finally_registry(d, id) == IF Truthy(id) THEN unregister_agent(d, id) ELSE d

\* The number of calls of unregister_agent that the "finally" clause makes.
finally_calls_always(id) == 1
finally_calls(id) == IF Truthy(id) THEN 1 ELSE 0

\* --------------------------------------------------------------- inputs
\* First messages: registrations with each identifier and the right token,
\* one with a wrong token, two without identifier (right and wrong token),
\* a message that is not a registration, and a payload that is not JSON.
FirstMessages ==
    {Register(a, SHARED_SECRET) : a \in Ids \cup {Empty}}
        \cup {Register("a", BadToken), Register(Empty, BadToken),
              ListRequest("a"), InvalidJson}

\* Messages of the receive loop.  Every message names "a" as its sender:
\* true for the connection registered as "a", a foreign sender_id for the
\* others.
LoopMessages ==
    {Direct("a", r, "hi") : r \in {"a", "b"}}
        \cup {Direct("a", "b", Empty), Broadcast("a", "hi"), Broadcast(Empty, "hi"),
              ListRequest("a"), Unknown("a"), InvalidJson, ArrayJson}

\* ---------------------------------------------------------------- steps
\* Every helper below sets all variables but nrecv.

\* The write buffers once the pending send of task c (if any) has returned.
Flushed_pending(c) == outbox
Flushed(c) ==
    [w \in Conns |-> IF w = sending[c] THEN Drained(outbox[w], c) ELSE outbox[w]]

\* websocket.send(env) on ws by the task of connection c, which then is
\* suspended at stage p while processing message m.  Enabled only when the
\* transport of ws is open.
Send(c, ws, env, p, m, it, g) ==
    /\ open[ws]
    /\ outbox' = [Flushed(c) EXCEPT ![ws] = Append(@, Frame(env, c))]
    /\ pc' = [pc EXCEPT ![c] = p]
    /\ sending' = [sending EXCEPT ![c] = ws]
    /\ message' = [message EXCEPT ![c] = m]
    /\ iter' = [iter EXCEPT ![c] = it]
    /\ bcast' = [bcast EXCEPT ![c] = g]
    /\ UNCHANGED <<open, unregister_calls>>

\* The handler of c ends: the "finally" clause runs (lines 169-171) with
\* the local agent_id = id, and the library closes the connection when the
\* handler returns; the locals of the handler and the connection's
\* buffers are freed.
Close(c, id) ==
    /\ CONNECTED_AGENTS' = finally_registry(CONNECTED_AGENTS, id)
    /\ pc' = [pc EXCEPT ![c] = "closed"]
    /\ open' = [open EXCEPT ![c] = FALSE]
    /\ agent_id' = [agent_id EXCEPT ![c] = NoneVal]
    /\ outbox' = [Flushed(c) EXCEPT ![c] = <<>>]
    /\ message' = [message EXCEPT ![c] = NoneVal]
    /\ sending' = [sending EXCEPT ![c] = 0]
    /\ iter' = [iter EXCEPT ![c] = NoIter]
    /\ bcast' = [bcast EXCEPT ![c] = NoBcast]
    /\ unregister_calls' = [unregister_calls EXCEPT ![c] = @ + finally_calls(id)]

\* The check of line 69.
AlreadyOnline_unchecked(d, id) == FALSE
AlreadyOnline(d, id) == DictHas(d, id)

\* Outcome of the validation of the first message, lines 55-78:
\* "raise" (json.loads or .get raised), a ServerError text, or "ok".
Validate_token_first(d, m) ==
    IF m.json # "object" THEN "raise"
    ELSE IF m.type # "AGENT_REGISTER" THEN "not a registration"
    ELSE IF m.auth_token # SHARED_SECRET THEN "invalid token"
    ELSE IF ~Truthy(m.agent_id) THEN "agent_id missing"
    ELSE IF AlreadyOnline(d, m.agent_id) THEN "agent id in use"
    ELSE "ok"
Validate_no_token(d, m) ==
    IF m.json # "object" THEN "raise"
    ELSE IF m.type # "AGENT_REGISTER" THEN "not a registration"
    ELSE IF ~Truthy(m.agent_id) THEN "agent_id missing"
    ELSE IF AlreadyOnline(d, m.agent_id) THEN "agent id in use"
    ELSE "ok"
Validate(d, m) ==
    IF m.json # "object" THEN "raise"
    ELSE IF m.type # "AGENT_REGISTER" THEN "not a registration"
    ELSE IF ~Truthy(m.agent_id) THEN "agent_id missing"
    ELSE IF m.auth_token # SHARED_SECRET THEN "invalid token"
    ELSE IF AlreadyOnline(d, m.agent_id) THEN "agent id in use"
    ELSE "ok"

\* The local agent_id after the first message: assigned at line 58, before
\* any validation, when the message is a registration.
AgentIdAfter(m) ==
    IF m.json = "object" /\ m.type = "AGENT_REGISTER" THEN m.agent_id ELSE NoneVal

\* Connections are interchangeable until their handler gets past line 54:
\* they are numbered in the order in which they do.
InTurn(c) == \A d \in Conns : d < c => pc[d] # "auth_recv"

\* Lines 54-78 and register_agent: the first message m arrives.
AuthRecvMsg(c, m) ==
    /\ pc[c] = "auth_recv"
    /\ InTurn(c)
    /\ open[c]
    /\ LET v == Validate(CONNECTED_AGENTS, m)
           id == AgentIdAfter(m)
       IN  CASE v = "raise" -> Close(c, id)
             [] v = "ok" ->
                  /\ CONNECTED_AGENTS' =
                         register_agent_insert(CONNECTED_AGENTS, c, id)
                  /\ agent_id' = [agent_id EXCEPT ![c] = id]
                  /\ Send(c, c, ServerInfo, "welcome_send", NoneVal, NoIter, NoBcast)
             [] OTHER ->
                  /\ agent_id' = [agent_id EXCEPT ![c] = id]
                  /\ Send(c, c, ServerError(v), "reject_send", NoneVal, NoIter, NoBcast)
                  /\ UNCHANGED CONNECTED_AGENTS
    /\ UNCHANGED nrecv

AuthRecv(c) == \E m \in FirstMessages : AuthRecvMsg(c, m)

\* The "return" after a rejection (lines 64, 68, 72, 78), then "finally".
RejectReturn(c) ==
    /\ pc[c] = "reject_send"
    /\ Close(c, agent_id[c])
    /\ UNCHANGED nrecv

\* recv() or the "async for" finds the connection closed: the outer
\* "except" clauses (lines 163-168) and "finally".
RecvClosed(c) ==
    /\ pc[c] \in {"auth_recv", "loop_recv"}
    /\ ~open[c]
    /\ Close(c, agent_id[c])
    /\ UNCHANGED nrecv

\* The peer closes its end of the connection, or the network drops it.
PeerClose(c) ==
    /\ pc[c] # "closed"
    /\ pc[c] = "auth_recv" => InTurn(c)
    /\ open[c]
    /\ open' = [open EXCEPT ![c] = FALSE]
    /\ UNCHANGED <<CONNECTED_AGENTS, pc, agent_id, outbox, message, sending, iter, nrecv,
                   bcast, unregister_calls>>

\* ----------------------------------------------------- the receive loop
\* What the loop body (lines 83-155) decides for message m with the
\* registry d, up to its first send: a reply to the sender's own websocket,
\* a forward to one websocket, or the start of the broadcast loop.

\* AGENT_MESSAGE, lines 87-110.
RouteDirect_flood(d, m) ==
    IF ~(Truthy(m.sender_id) /\ Truthy(m.receiver_id) /\ Truthy(m.content))
    THEN [kind |-> "reply", env |-> ServerError("incomplete message")]
    ELSE IF DictHas(d, m.receiver_id)
    THEN [kind |-> "forward", to |-> DictGet(d, m.receiver_id)]
    ELSE [kind |-> "broadcast"]
RouteDirect_offline(d, m) ==
    IF ~(Truthy(m.sender_id) /\ Truthy(m.receiver_id) /\ Truthy(m.content))
    THEN [kind |-> "reply", env |-> ServerError("incomplete message")]
    ELSE [kind |-> "reply", env |-> ServerError("agent not online")]
RouteDirect_any_handle(d, m) ==
    IF ~(Truthy(m.sender_id) /\ Truthy(m.receiver_id) /\ Truthy(m.content))
    THEN [kind |-> "reply", env |-> ServerError("incomplete message")]
    ELSE [kind |-> "forward", to |-> MaxConn]
RouteDirect(d, m) ==
    IF ~(Truthy(m.sender_id) /\ Truthy(m.receiver_id) /\ Truthy(m.content))
    THEN [kind |-> "reply", env |-> ServerError("incomplete message")]
    ELSE IF DictHas(d, m.receiver_id)
    THEN [kind |-> "forward", to |-> DictGet(d, m.receiver_id)]
    ELSE [kind |-> "reply", env |-> ServerError("agent not online")]

\* BROADCAST_MESSAGE, lines 112-122.
RouteBroadcast_unchecked(d, m) == [kind |-> "broadcast"]
RouteBroadcast(d, m) ==
    IF ~(Truthy(m.sender_id) /\ Truthy(m.content))
    THEN [kind |-> "reply", env |-> ServerError("incomplete message")]
    ELSE [kind |-> "broadcast"]

\* LIST_AGENTS_REQUEST, lines 133-140.
RouteList_raw(d, m) ==
    [kind |-> "reply",
     env |-> ListResponse([i \in 1..Len(d) |-> d[i].key], m.sender_id)]
RouteList(d, m) ==
    [kind |-> "reply",
     env |-> ListResponse([i \in 1..Len(DictKeys(d)) |-> DictKeys(d)[i].key],
                          m.sender_id)]

Route(d, m) ==
    IF m.json = "invalid"
    THEN [kind |-> "reply", env |-> ServerError("invalid json")]
    ELSE IF m.json # "object"
    THEN [kind |-> "reply", env |-> ServerError("internal error")]
    ELSE IF m.type = "AGENT_MESSAGE" THEN RouteDirect(d, m)
    ELSE IF m.type = "BROADCAST_MESSAGE" THEN RouteBroadcast(d, m)
    ELSE IF m.type = "LIST_AGENTS_REQUEST" THEN RouteList(d, m)
    ELSE [kind |-> "reply", env |-> ServerError("unknown message type")]

\* iter(d.items()): the iterator remembers the size of the dict.
DictIter(d) == [pos |-> 1, used |-> DictUsed(d), len |-> DictUsed(d)]

\* Index of the first entry of d at or after position i that is not a hole
\* (Len(d) + 1 when there is none).
RECURSIVE NextEntry(_, _)
NextEntry(d, i) ==
    IF i > Len(d) \/ d[i] # Hole THEN i ELSE NextEntry(d, i + 1)

\* The broadcast loop (lines 124-130) from iterator state it up to its
\* next suspension: "send" (a send to websocket "to" was issued), "stop"
\* (the loop ended) or "error" (next() raised RuntimeError because the
\* dict changed during the iteration).  A send to a closed websocket
\* raises at once, is logged (line 130) and the loop goes on.
RECURSIVE BroadcastLoop_uncaught(_, _, _, _)
BroadcastLoop_uncaught(d, it, sender_id, up) ==
    IF it.used # DictUsed(d) THEN [kind |-> "error"]
    ELSE LET i == NextEntry(d, it.pos)
             nx == [pos |-> i + 1, used |-> it.used, len |-> it.len - 1]
         IN  IF i > Len(d) THEN [kind |-> "stop"]
             ELSE IF it.len = 0 THEN [kind |-> "error"]
             ELSE IF d[i].key = sender_id
             THEN BroadcastLoop_uncaught(d, nx, sender_id, up)
             ELSE IF up[d[i].value]
             THEN [kind |-> "send", to |-> d[i].value, it |-> nx]
             ELSE [kind |-> "error"]
RECURSIVE BroadcastLoop(_, _, _, _)
BroadcastLoop(d, it, sender_id, up) ==
    IF it.used # DictUsed(d) THEN [kind |-> "error"]
    ELSE LET i == NextEntry(d, it.pos)
             nx == [pos |-> i + 1, used |-> it.used, len |-> it.len - 1]
         IN  IF i > Len(d) THEN [kind |-> "stop"]
             ELSE IF it.len = 0 THEN [kind |-> "error"]
             ELSE IF d[i].key # sender_id /\ up[d[i].value]
             THEN [kind |-> "send", to |-> d[i].value, it |-> nx]
             ELSE BroadcastLoop(d, nx, sender_id, up)

\* The loop body is done with its message: back to the "async for".
NextMessage(c) ==
    /\ pc' = [pc EXCEPT ![c] = "loop_recv"]
    /\ message' = [message EXCEPT ![c] = NoneVal]
    /\ sending' = [sending EXCEPT ![c] = 0]
    /\ iter' = [iter EXCEPT ![c] = NoIter]
    /\ bcast' = [bcast EXCEPT ![c] = NoBcast]
    /\ outbox' = Flushed(c)
    /\ UNCHANGED <<CONNECTED_AGENTS, agent_id, open, unregister_calls>>

\* A single send of the loop body while processing m.
LoopSend(c, ws, env, m) ==
    /\ Send(c, ws, env, "msg_send", m, NoIter, NoBcast)
    /\ UNCHANGED <<CONNECTED_AGENTS, agent_id>>

\* "except Exception" of the loop body (lines 156-161): report to the
\* sender; when that send raises too, the exception leaves the loop and
\* the handler ends.
InternalError_crash(c, m) == Close(c, agent_id[c])
InternalError_evict(c, m) ==
    /\ Send(c, c, ServerError("internal error"), "msg_send", m, NoIter, NoBcast)
    /\ CONNECTED_AGENTS' = unregister_agent(CONNECTED_AGENTS, m.receiver_id)
    /\ UNCHANGED agent_id
InternalError(c, m) ==
    IF open[c]
    THEN LoopSend(c, c, ServerError("internal error"), m)
    ELSE Close(c, agent_id[c])

\* One round of the broadcast loop for message m from iterator state it.
BroadcastStep(c, m, it, g) ==
    LET r == BroadcastLoop(CONNECTED_AGENTS, it, m.sender_id, open)
    IN  CASE r.kind = "send" ->
               /\ Send(c, r.to, m, "bcast_send", m, r.it,
                       [g EXCEPT !.rcpt = Append(@, r.to)])
               /\ UNCHANGED <<CONNECTED_AGENTS, agent_id>>
          [] r.kind = "stop" -> NextMessage(c)
          [] OTHER -> InternalError(c, m)

\* Lines 81-155: the next message m arrives and is processed up to the
\* first suspension.
LoopRecvMsg(c, m) ==
    /\ pc[c] = "loop_recv"
    /\ open[c]
    /\ nrecv < MaxMsgs
    /\ nrecv' = nrecv + 1
    /\ LET r == Route(CONNECTED_AGENTS, m)
       IN  CASE r.kind = "reply" -> LoopSend(c, c, r.env, m)
             [] r.kind = "forward" ->
                  IF open[r.to] THEN LoopSend(c, r.to, m, m)
                  ELSE InternalError(c, m)
             [] OTHER -> BroadcastStep(c, m, DictIter(CONNECTED_AGENTS),
                                       [snap |-> CONNECTED_AGENTS, rcpt |-> <<>>])

LoopRecv(c) == \E m \in LoopMessages : LoopRecvMsg(c, m)

\* register_agent returns; the handler reaches the receive loop (line 81).
WelcomeSent(c) ==
    /\ pc[c] = "welcome_send"
    /\ NextMessage(c)
    /\ UNCHANGED nrecv

\* A send of the loop body returns; the loop takes the next message.
SendDone(c) ==
    /\ pc[c] = "msg_send"
    /\ NextMessage(c)
    /\ UNCHANGED nrecv

\* The send of line 127 returns; the broadcast loop goes on.
BroadcastResume(c) ==
    /\ pc[c] = "bcast_send"
    /\ BroadcastStep(c, message[c], iter[c], bcast[c])
    /\ UNCHANGED nrecv

Next ==
    \E c \in Conns :
        \/ AuthRecv(c)
        \/ RejectReturn(c)
        \/ WelcomeSent(c)
        \/ RecvClosed(c)
        \/ PeerClose(c)
        \/ LoopRecv(c)
        \/ SendDone(c)
        \/ BroadcastResume(c)

Spec == Init /\ [][Next]_vars

\* =============================================================== claims
\* Vocabulary of the claims.

\* The session of c is in the Registered state: past the handshake, in the
\* receive loop, not closed.
Registered(c) == pc[c] \in {"loop_recv", "msg_send", "bcast_send"}

\* The session of c has passed validation and inserted itself (line 31).
Accepted(c) == pc[c] = "welcome_send" \/ Registered(c)

\* Registry.lookup: the handle registered under id, 0 when absent.
Lookup(id) ==
    IF DictHas(CONNECTED_AGENTS, id) THEN DictGet(CONNECTED_AGENTS, id) ELSE 0

\* C1: from the successful Register of a session as A until the session
\* disconnects, the lookup of A returns the session's handle, whatever the
\* other connections do; once the session has closed, no lookup returns
\* its handle.
C1_LookupWhileRegistered ==
    \A c \in Conns :
        /\ (Registered(c) /\ open[c]) => Lookup(agent_id[c]) = c
        /\ pc[c] = "closed" => \A a \in Ids : Lookup(a) # c

\* C2: there are never two sessions in the Registered state under the
\* same agent_id.
C2_UniqueOnline ==
    \A c, d \in Conns :
        (c # d /\ Registered(c) /\ Registered(d)) => agent_id[c] # agent_id[d]

\* C3: of two connections that send Register with the same agent_id and
\* the right token while the id is free, exactly one is accepted: the
\* check for absence (line 69) and the insert (line 31) happen in one
\* step.  The step that processes such a Register either finds the id
\* free, inserts the connection and sends it ServerInfo, or finds the id
\* taken, changes nothing in the registry and sends ServerError; a session
\* that was sent that ServerError does nothing further but close.
C3_Step(c, a) ==
    AuthRecvMsg(c, Register(a, SHARED_SECRET)) =>
        IF Lookup(a) = 0
        THEN /\ pc'[c] = "welcome_send"
             /\ DictHas(CONNECTED_AGENTS', a)
             /\ DictGet(CONNECTED_AGENTS', a) = c
             /\ outbox'[c] = <<Frame(ServerInfo, c)>>
        ELSE /\ pc'[c] = "reject_send"
             /\ CONNECTED_AGENTS' = CONNECTED_AGENTS
             /\ outbox'[c] = <<Frame(ServerError("agent id in use"), c)>>

C3_AtomicRegister ==
    [][/\ \A c \in Conns : \A a \in Ids : C3_Step(c, a)
       /\ \A c \in Conns :
            pc[c] = "reject_send" => pc'[c] \in {"reject_send", "closed"}]_vars

\* Two sessions raced for the same id: one inserted itself and is still in
\* the send of its ServerInfo, the other was sent the ServerError.
C3_Witness ==
    \E c, d \in Conns :
        /\ pc[c] = "welcome_send" /\ pc[d] = "reject_send"
        /\ agent_id[c] = agent_id[d]
        /\ Lookup(agent_id[c]) = c
        /\ outbox[d] = <<Frame(ServerError("agent id in use"), d)>>

\* The entries of the registry (positions of the dict that are not holes).
Entries == {i \in 1..Len(CONNECTED_AGENTS) : CONNECTED_AGENTS[i] # Hole}

\* C4 as stated: at most one entry per agent_id, and every entry refers to
\* a connection that is currently open and registered under that agent_id.
C4_EntryOpenAndRegistered ==
    /\ \A i, j \in Entries :
         CONNECTED_AGENTS[i].key = CONNECTED_AGENTS[j].key => i = j
    /\ \A i \in Entries :
         LET e == CONNECTED_AGENTS[i]
         IN  open[e.value] /\ Accepted(e.value) /\ agent_id[e.value] = e.key

\* C4 as amended: at most one entry per agent_id, and every entry refers to
\* a connection whose handler inserted it under exactly that agent_id and
\* has not finished closing (its transport may already be closed).
C4_EntryOfLiveSession ==
    /\ \A i, j \in Entries :
         CONNECTED_AGENTS[i].key = CONNECTED_AGENTS[j].key => i = j
    /\ \A i \in Entries :
         LET e == CONNECTED_AGENTS[i]
         IN  /\ e.value \in Conns /\ e.key \in Ids
             /\ pc[e.value] # "closed"
             /\ Accepted(e.value)
             /\ agent_id[e.value] = e.key

\* An entry whose connection the peer has closed and whose handler has not
\* noticed yet.
C4_Witness ==
    \E i \in Entries :
        /\ ~open[CONNECTED_AGENTS[i].value]
        /\ Registered(CONNECTED_AGENTS[i].value)

\* A Direct with non-empty sender_id, receiver_id and content.
CompleteDirect(m) ==
    /\ m.json = "object" /\ m.type = "AGENT_MESSAGE"
    /\ Truthy(m.sender_id) /\ Truthy(m.receiver_id) /\ Truthy(m.content)

\* The write buffers after one more frame f on websocket ws.
WithFrame(ws, f) == [outbox EXCEPT ![ws] = Append(@, f)]

\* C5 as stated: a complete Direct received on a Registered session whose
\* receiver_id is in the registry is written, unmodified, to the connection
\* registered under receiver_id and to no other, and nothing is sent to the
\* sender.
C5_Forwarded ==
    [][\A c \in Conns : \A m \in LoopMessages :
         (LoopRecvMsg(c, m) /\ CompleteDirect(m) /\ Lookup(m.receiver_id) # 0) =>
             outbox' = WithFrame(Lookup(m.receiver_id), Frame(m, c))]_vars

\* C5 as amended: ... provided the send to that connection succeeds; when
\* it raises because the receiver's transport is closed, nothing is
\* forwarded and the sender is sent one ServerError.
C5_ForwardedUnlessSendFails ==
    [][\A c \in Conns : \A m \in LoopMessages :
         (LoopRecvMsg(c, m) /\ CompleteDirect(m) /\ Lookup(m.receiver_id) # 0) =>
             IF open[Lookup(m.receiver_id)]
             THEN outbox' = WithFrame(Lookup(m.receiver_id), Frame(m, c))
             ELSE outbox' = WithFrame(c, Frame(ServerError("internal error"), c))]_vars

\* A Direct is in the write buffer of the connection registered under its
\* receiver_id, another connection than the sender's.
C5_Witness ==
    \E c \in Conns :
        /\ pc[c] = "msg_send" /\ CompleteDirect(message[c])
        /\ sending[c] # c
        /\ sending[c] = Lookup(message[c].receiver_id)
        /\ outbox[sending[c]] = <<Frame(message[c], c)>>

\* The texts of the ServerError replies of the receive loop.
ErrorTexts == {"invalid json", "internal error", "incomplete message",
               "agent not online", "unknown message type"}

\* The frames that a step adds to the write buffer of ws.
NewFrames(ws) ==
    {outbox'[ws][i] : i \in 1..Len(outbox'[ws])}
        \ {outbox[ws][i] : i \in 1..Len(outbox[ws])}

\* C6: a complete Direct whose receiver_id is not in the registry when it
\* is processed causes exactly one ServerError, to the sender, and no other
\* write; and it is never delivered later, because a Direct is written to
\* a connection only in the step that receives it, and only to the
\* connection registered under its receiver_id in that step.
C6_OfflineDropped ==
    [][/\ \A c \in Conns : \A m \in LoopMessages :
            (LoopRecvMsg(c, m) /\ CompleteDirect(m) /\ Lookup(m.receiver_id) = 0) =>
                \E why \in ErrorTexts :
                    outbox' = WithFrame(c, Frame(ServerError(why), c))
       /\ \A ws \in Conns : \A f \in NewFrames(ws) :
            f.env.type = "AGENT_MESSAGE" =>
                /\ pc[f.by] = "loop_recv" /\ message'[f.by] = f.env
                /\ Lookup(f.env.receiver_id) = ws]_vars

\* A Direct was answered "not online"; its receiver_id has registered
\* since, and the Direct is not in that connection's write buffer.
C6_Witness ==
    \E c \in Conns :
        /\ pc[c] = "msg_send" /\ CompleteDirect(message[c])
        /\ outbox[c] = <<Frame(ServerError("agent not online"), c)>>
        /\ Lookup(message[c].receiver_id) # 0
        /\ \A i \in 1..Len(outbox[Lookup(message[c].receiver_id)]) :
             outbox[Lookup(message[c].receiver_id)][i].env # message[c]

\* A Broadcast with non-empty sender_id and content.
CompleteBroadcast(m) ==
    /\ m.json = "object" /\ m.type = "BROADCAST_MESSAGE"
    /\ Truthy(m.sender_id) /\ Truthy(m.content)

\* The connections registered in dict d under another identifier than id.
Others(d, id) == {d[i].value : i \in {j \in 1..Len(d) : d[j] # Hole /\ d[j].key # id}}

\* The elements of sequence q, and q holding none of them twice.
Range(q) == {q[i] : i \in 1..Len(q)}
NoDuplicates(q) == \A i, j \in 1..Len(q) : q[i] = q[j] => i = j

\* The broadcast of session c, begun with registry snap and written to the
\* websockets rcpt, reached exactly the other agents: each of them once,
\* never the sender.  An agent counts when it was registered when the
\* broadcast began and still is, with its transport open.
ReachedAllOthers(c, snap, rcpt) ==
    /\ NoDuplicates(rcpt)
    /\ c \notin Range(rcpt)
    /\ Range(rcpt) \subseteq Others(snap, agent_id[c])
    /\ \A w \in Others(snap, agent_id[c]) :
         (open[w] /\ w \in Others(CONNECTED_AGENTS, agent_id[c])) => w \in Range(rcpt)

\* C7: when the processing of a complete Broadcast from registered sender
\* S (its sender_id is S's own identifier) ends, the Broadcast has been
\* delivered exactly once to each of the other registered agents and never
\* to S.
C7_BroadcastReachesAll ==
    [][\A c \in Conns :
         /\ (pc[c] = "bcast_send" /\ pc'[c] # "bcast_send"
                /\ message[c].sender_id = agent_id[c]) =>
                ReachedAllOthers(c, bcast[c].snap, bcast[c].rcpt)
         /\ \A m \in LoopMessages :
              (LoopRecvMsg(c, m) /\ CompleteBroadcast(m) /\ pc'[c] # "bcast_send"
                  /\ m.sender_id = agent_id[c]) =>
                  ReachedAllOthers(c, CONNECTED_AGENTS, <<>>)]_vars

\* C8: a Broadcast tolerates changes of the registry during its iteration:
\* it never fails as a whole, that is, the session processing a complete
\* Broadcast never reports a ServerError to its sender.
C8_BroadcastNeverFails ==
    \A c \in Conns :
        (pc[c] = "msg_send" /\ CompleteBroadcast(message[c])) =>
            \A i \in 1..Len(outbox[c]) :
                ~(outbox[c][i].by = c /\ outbox[c][i].env.type = "SERVER_ERROR")

\* The entries at or after position pos that a broadcast with this
\* sender_id writes to: not the sender's, transport open.
Servable(sender_id, pos) ==
    {i \in Entries : /\ i >= pos
                     /\ CONNECTED_AGENTS[i].key # sender_id
                     /\ open[CONNECTED_AGENTS[i].value]}

Min(S) == CHOOSE i \in S : \A j \in S : i <= j

\* One round of the broadcast loop of session c, for message m from
\* position pos, goes past every entry whose send fails: the broadcast is
\* written to the next entry whose send succeeds, or the loop ends
\* normally when there is none; the sender stays in its loop and the
\* registry is unchanged.
SkipsFailedSends(c, m, pos) ==
    /\ CONNECTED_AGENTS' = CONNECTED_AGENTS
    /\ agent_id' = agent_id
    /\ IF Servable(m.sender_id, pos) # {}
       THEN LET ws == CONNECTED_AGENTS[Min(Servable(m.sender_id, pos))].value
            IN  /\ pc'[c] = "bcast_send"
                /\ outbox' = [Flushed(c) EXCEPT ![ws] = Append(@, Frame(m, c))]
       ELSE /\ pc'[c] = "loop_recv"
            /\ outbox' = Flushed(c)

\* C9: a failed send to one recipient of a Broadcast is skipped and does
\* not abort delivery: in every round of a broadcast loop over a registry
\* that is as it was when the loop began, the entries whose send fails are
\* passed over, the next recipient whose send succeeds is served, the
\* sender's session stays Registered and no registry entry changes.
C9_FailedSendSkipped ==
    [][\A c \in Conns :
         /\ (BroadcastResume(c) /\ CONNECTED_AGENTS = bcast[c].snap) =>
                  SkipsFailedSends(c, message[c], iter[c].pos)
         /\ \A m \in LoopMessages :
              (LoopRecvMsg(c, m) /\ CompleteBroadcast(m)) =>
                  SkipsFailedSends(c, m, 1)]_vars

\* A broadcast went past an entry whose transport is closed and was written
\* to a later entry.
C9_Witness ==
    \E c \in Conns : \E i, j \in Entries :
        /\ pc[c] = "bcast_send" /\ CONNECTED_AGENTS = bcast[c].snap
        /\ i < j
        /\ CONNECTED_AGENTS[i].key # message[c].sender_id
        /\ ~open[CONNECTED_AGENTS[i].value]
        /\ bcast[c].rcpt = <<CONNECTED_AGENTS[j].value>>
        /\ sending[c] = CONNECTED_AGENTS[j].value

\* C10: a Broadcast is never written to the connection it was received
\* on, whatever sender_id it carries.
C10_NotBackToSender ==
    \A c \in Conns : \A i \in 1..Len(outbox[c]) :
        ~(outbox[c][i].by = c /\ outbox[c][i].env.type = "BROADCAST_MESSAGE")


\* A ListRequest (a JSON object of type LIST_AGENTS_REQUEST).
IsListRequest(m) == m.json = "object" /\ m.type = "LIST_AGENTS_REQUEST"

\* The agent identifiers in the registry.
RegisteredIds == {CONNECTED_AGENTS[i].key : i \in Entries}

\* C11: the step that processes a ListRequest on connection c writes one
\* frame, to c only: a ListResponse whose agents are exactly the
\* identifiers in the registry in that step, each once, and whose
\* requester_id is the request's sender_id.
C11_ListSnapshot ==
    [][\A c \in Conns : \A m \in LoopMessages :
         (LoopRecvMsg(c, m) /\ IsListRequest(m)) =>
             \E f \in NewFrames(c) :
                 /\ outbox' = WithFrame(c, f)
                 /\ f.by = c
                 /\ f.env.type = "LIST_AGENTS_RESPONSE"
                 /\ Range(f.env.agents) = RegisteredIds
                 /\ NoDuplicates(f.env.agents)
                 /\ f.env.requester_id = m.sender_id]_vars

\* A ListResponse is being sent that was computed after a disconnect and a
\* later registration: the registry has a hole and two agents.
C11_Witness ==
    \E c \in Conns :
        /\ pc[c] = "msg_send" /\ IsListRequest(message[c])
        /\ Len(outbox[c]) = 1 /\ outbox[c][1].by = c
        /\ outbox[c][1].env.type = "LIST_AGENTS_RESPONSE"
        /\ outbox[c][1].env.requester_id = message[c].sender_id
        /\ Len(outbox[c][1].env.agents) = 2
        /\ Range(outbox[c][1].env.agents) = RegisteredIds
        /\ \E i \in 1..Len(CONNECTED_AGENTS) : CONNECTED_AGENTS[i] = Hole


\* C12: every Direct or Broadcast that the router writes to another
\* connection than the one it came from carries as sender_id the agent_id
\* under which the originating session registered.
C12_SenderIdAuthentic ==
    \A ws \in Conns : \A i \in 1..Len(outbox[ws]) :
        LET f == outbox[ws][i]
        IN  (f.by # ws /\ f.env.type \in {"AGENT_MESSAGE", "BROADCAST_MESSAGE"}) =>
                f.env.sender_id = agent_id[f.by]


\* A Register (a JSON object of type AGENT_REGISTER).
IsRegister(m) == m.json = "object" /\ m.type = "AGENT_REGISTER"

\* No entry of registry d refers to connection c.
NotInserted(d, c) == \A i \in 1..Len(d) : d[i] # Hole => d[i].value # c

\* The step that processes the first message rejects it: one ServerError
\* with this text is written to c, which is not inserted.
Rejected(c, why) ==
    /\ pc'[c] = "reject_send"
    /\ outbox' = WithFrame(c, Frame(ServerError(why), c))
    /\ CONNECTED_AGENTS' = CONNECTED_AGENTS
    /\ NotInserted(CONNECTED_AGENTS', c)

\* C13: a first-message Register is validated in the order agent_id
\* non-empty, auth_token equal to the shared secret, agent_id absent from
\* the registry, and the first failing check decides: one ServerError
\* naming that check is sent, and the session does nothing further but
\* close, without being inserted or becoming Registered.  When all three
\* pass the session is inserted, sent ServerInfo, and next enters the
\* receive loop.
C13_ValidationOrder ==
    [][\A c \in Conns :
         /\ \A m \in FirstMessages :
              (AuthRecvMsg(c, m) /\ IsRegister(m)) =>
                  IF ~Truthy(m.agent_id) THEN Rejected(c, "agent_id missing")
                  ELSE IF m.auth_token # SHARED_SECRET THEN Rejected(c, "invalid token")
                  ELSE IF Lookup(m.agent_id) # 0 THEN Rejected(c, "agent id in use")
                  ELSE /\ pc'[c] = "welcome_send"
                       /\ outbox' = WithFrame(c, Frame(ServerInfo, c))
                       /\ CONNECTED_AGENTS' =
                              Append(CONNECTED_AGENTS, [key |-> m.agent_id, value |-> c])
         /\ pc[c] = "reject_send" =>
              /\ pc'[c] \in {"reject_send", "closed"}
              /\ NotInserted(CONNECTED_AGENTS', c)
              /\ \A i \in 1..Len(outbox'[c]) : outbox'[c][i] \in Range(outbox[c])
         /\ pc[c] = "welcome_send" => pc'[c] \in {"welcome_send", "loop_recv"}]_vars

\* A Register that fails two checks at once, wrong token and identifier in
\* use, was answered by the earlier of the two.
C13_Witness ==
    \E c \in Conns :
        /\ pc[c] = "reject_send"
        /\ outbox[c] = <<Frame(ServerError("invalid token"), c)>>
        /\ Lookup(agent_id[c]) \notin {0, c}


\* C14: when the first message on a connection is not a Register, or is a
\* payload that does not parse, the step that processes it sends one
\* ServerError to that connection, and the session then only closes.
C14_BadFirstMessageAnswered ==
    [][\A c \in Conns : \A m \in FirstMessages :
         (AuthRecvMsg(c, m) /\ ~IsRegister(m)) =>
             /\ pc'[c] = "reject_send"
             /\ \E f \in NewFrames(c) :
                  /\ outbox' = WithFrame(c, f)
                  /\ f.by = c /\ f.env.type = "SERVER_ERROR"]_vars


\* A message of the receive loop that is a protocol error: a payload that
\* does not parse into a JSON object, an unknown message type, or a Direct
\* or Broadcast with an empty required field.
ProtocolError(m) ==
    \/ m.json # "object"
    \/ m.type \notin {"AGENT_MESSAGE", "BROADCAST_MESSAGE", "LIST_AGENTS_REQUEST"}
    \/ m.type = "AGENT_MESSAGE" /\ ~CompleteDirect(m)
    \/ m.type = "BROADCAST_MESSAGE" /\ ~CompleteBroadcast(m)

\* C15: a protocol error in a message received on a Registered session is
\* answered by exactly one ServerError, written to the sender's connection
\* and nothing to any other; the registry and the session's identity are
\* unchanged, and the session stays in its receive loop: when the send of
\* the reply returns it takes the next message.
C15_ProtocolErrorAnswered ==
    [][\A c \in Conns :
         /\ \A m \in LoopMessages :
              (LoopRecvMsg(c, m) /\ ProtocolError(m)) =>
                  /\ \E why \in ErrorTexts :
                       outbox' = WithFrame(c, Frame(ServerError(why), c))
                  /\ pc'[c] = "msg_send"
                  /\ CONNECTED_AGENTS' = CONNECTED_AGENTS
                  /\ agent_id' = agent_id
         /\ (pc[c] = "msg_send" /\ ProtocolError(message[c]) /\ pc'[c] # pc[c]) =>
              /\ pc'[c] = "loop_recv"
              /\ CONNECTED_AGENTS' = CONNECTED_AGENTS
              /\ agent_id' = agent_id]_vars

\* A Broadcast without sender_id was answered with a ServerError while
\* another agent is registered, and nothing was written to that agent; the
\* sender's registry entry is in place.
C15_Witness ==
    \E c, w \in Conns :
        /\ pc[c] = "msg_send" /\ message[c] = Broadcast(Empty, "hi")
        /\ outbox[c] = <<Frame(ServerError("incomplete message"), c)>>
        /\ Lookup(agent_id[c]) = c
        /\ w # c /\ Registered(w) /\ open[w] /\ Lookup(agent_id[w]) = w
        /\ outbox[w] = <<>>


\* C16: when a complete Direct names a receiver that is still in the
\* registry but whose transport is already closed, the forward fails and
\* this is a delivery failure only: the sender is sent one ServerError,
\* nothing else is written, the registry, every session's identity,
\* position and transport are unchanged apart from the sender now being in
\* the send of that reply, after which it takes its next message.
C16_MidCloseReceiver ==
    [][\A c \in Conns :
         /\ \A m \in LoopMessages :
              (/\ LoopRecvMsg(c, m) /\ CompleteDirect(m)
               /\ Lookup(m.receiver_id) # 0 /\ ~open[Lookup(m.receiver_id)]) =>
                  /\ outbox' = WithFrame(c, Frame(ServerError("internal error"), c))
                  /\ pc' = [pc EXCEPT ![c] = "msg_send"]
                  /\ CONNECTED_AGENTS' = CONNECTED_AGENTS
                  /\ agent_id' = agent_id
                  /\ open' = open
         /\ (/\ pc[c] = "msg_send" /\ CompleteDirect(message[c])
             /\ sending[c] = c /\ pc'[c] # pc[c]) =>
                  /\ pc' = [pc EXCEPT ![c] = "loop_recv"]
                  /\ CONNECTED_AGENTS' = CONNECTED_AGENTS
                  /\ agent_id' = agent_id]_vars

\* A Direct to a registered receiver whose transport is closed was answered
\* with a ServerError; sender and receiver are both still in the registry.
C16_Witness ==
    \E c \in Conns :
        /\ pc[c] = "msg_send" /\ CompleteDirect(message[c])
        /\ outbox[c] = <<Frame(ServerError("internal error"), c)>>
        /\ Lookup(agent_id[c]) = c
        /\ Lookup(message[c].receiver_id) \notin {0, c}
        /\ ~open[Lookup(message[c].receiver_id)]
        /\ Registered(Lookup(message[c].receiver_id))


\* The frames of buffer b that are still in buffer b2, in order.
Kept(b, b2) == SelectSeq(b, LAMBDA f : f \in Range(b2))

\* C17: the messages of one sender are routed in the order its receive
\* loop takes them.  A session takes a message only when every write it
\* made for earlier messages has returned (no frame of its own is pending
\* in any buffer); every Direct or Broadcast frame it writes is the message
\* it is processing, and that message changes only when the session takes
\* a new one; and every write goes to the end of a buffer, behind the
\* frames already there.  So the effects of m1 are all issued before any
\* effect of m2, and two Directs to one receiver arrive in sending order.
C17_FifoPerSender ==
    [][/\ \A c \in Conns : \A m \in LoopMessages :
            LoopRecvMsg(c, m) =>
                /\ \A ws \in Conns : \A f \in Range(outbox[ws]) : f.by # c
                /\ message[c] = NoneVal
       /\ \A c \in Conns :
            (pc[c] \in {"msg_send", "bcast_send"} /\ pc'[c] \in {"msg_send", "bcast_send"})
                => message'[c] = message[c]
       /\ \A ws \in Conns : \A f \in NewFrames(ws) :
            /\ outbox'[ws] = Append(Kept(outbox[ws], outbox'[ws]), f)
            /\ f.env.type \in {"AGENT_MESSAGE", "BROADCAST_MESSAGE"} =>
                   /\ pc'[f.by] \in {"msg_send", "bcast_send"}
                   /\ f.env = message'[f.by]
       /\ \A ws \in Conns :
            NewFrames(ws) = {} => outbox'[ws] = Kept(outbox[ws], outbox'[ws])]_vars

\* The only session that has been in its receive loop has taken its second
\* message, a Direct, and written it behind the frames in the buffer of the
\* receiver, another connection; no write for its first message is pending.
C17_Witness ==
    \E c \in Conns :
        /\ nrecv = 2
        /\ \A w \in Conns \ {c} : pc[w] \in {"auth_recv", "welcome_send"}
        /\ pc[c] = "msg_send" /\ CompleteDirect(message[c])
        /\ sending[c] # c
        /\ outbox[sending[c]] =
               <<Frame(ServerInfo, sending[c]), Frame(message[c], c)>>
        /\ \A ws \in Conns \ {sending[c]} : \A f \in Range(outbox[ws]) : f.by # c


\* C18: in no state are two sessions in the middle of a send on the same
\* connection.
C18_SingleWriter ==
    \A c, d \in Conns :
        (c # d /\ sending[c] # 0) => sending[c] # sending[d]


\* The values the handler's agent_id can have when "finally" runs.
AnyId == Ids \cup {Empty, NoneVal}

\* C19: unregister is idempotent.  For the registry of every reachable
\* state and every agent_id, unregistering twice gives the registry that
\* unregistering once gives, in which the agent_id is absent and every
\* other entry is as before; unregistering an absent agent_id changes
\* nothing.  (unregister_agent is total: it raises for no input.)
C19_UnregisterIdempotent ==
    \A id \in AnyId :
        LET once == unregister_agent(CONNECTED_AGENTS, id)
        IN  /\ unregister_agent(once, id) = once
            /\ ~DictHas(once, id)
            /\ \A k \in AnyId \ {id} :
                 /\ DictHas(once, k) = DictHas(CONNECTED_AGENTS, k)
                 /\ DictHas(once, k) => DictGet(once, k) = DictGet(CONNECTED_AGENTS, k)
            /\ ~DictHas(CONNECTED_AGENTS, id) => once = CONNECTED_AGENTS

\* Two handlers have called unregister_agent and the registry holds one
\* deletion: the other call found its agent_id absent and changed
\* nothing, the entry of another agent is in place.
C19_Witness ==
    /\ Cardinality({c \in Conns : unregister_calls[c] = 1}) = 2
    /\ Len(CONNECTED_AGENTS) = 2
    /\ CONNECTED_AGENTS[1] = Hole
    /\ CONNECTED_AGENTS[2] # Hole


\* No task writes a frame for the session of c, and c is in no send.
NoSendBy(c) ==
    /\ sending'[c] = 0
    /\ \A ws \in Conns : \A f \in NewFrames(ws) : f.by # c

\* C20 as stated: every session that has reached Closed has made exactly
\* one call of unregister.
C20_ExactlyOneUnregister ==
    \A c \in Conns : pc[c] = "closed" => unregister_calls[c] = 1

\* C20 as amended: a session calls unregister only in the step that takes
\* it to Closed: exactly once, for its agent_id, when its handler holds a
\* non-empty agent_id, and not at all when it holds none (it closes
\* before a Register gave it one).  Once Closed the session stays Closed,
\* makes no further call and attempts no send.
C20_OneUnregisterIfIdentified ==
    [][\A c \in Conns :
         /\ pc[c] # "closed" => unregister_calls[c] = 0
         /\ (pc[c] # "closed" /\ pc'[c] = "closed") =>
              IF Truthy(agent_id[c])
              THEN /\ unregister_calls'[c] = 1
                   /\ CONNECTED_AGENTS' = unregister_agent(CONNECTED_AGENTS, agent_id[c])
              ELSE /\ unregister_calls'[c] = 0
                   /\ CONNECTED_AGENTS' = CONNECTED_AGENTS
         /\ pc[c] = "closed" =>
              /\ pc'[c] = "closed"
              /\ unregister_calls'[c] = unregister_calls[c]
              /\ NoSendBy(c)
         /\ pc'[c] = "closed" => NoSendBy(c)]_vars

\* All sessions are Closed, after two messages were routed: two of them
\* held an agent_id and made one call each, one closed without an agent_id
\* and made none.
C20_Witness ==
    /\ \A c \in Conns : pc[c] = "closed"
    /\ Cardinality({c \in Conns : unregister_calls[c] = 1}) = 2
    /\ Cardinality({c \in Conns : unregister_calls[c] = 0}) = 1
    /\ nrecv = 2


\* C21: a session that closes removes no registry entry of another
\* connection: an entry that a step removes or changes is bound to a
\* connection that reaches Closed in that step.
C21_CloseKeepsOthersEntries ==
    [][\A i \in Entries :
         CONNECTED_AGENTS'[i] # CONNECTED_AGENTS[i] =>
             LET c == CONNECTED_AGENTS[i].value
             IN  pc[c] # "closed" /\ pc'[c] = "closed"]_vars


\* C22: the first frame written to a connection that registers is its
\* ServerInfo.  Until its Register is processed nothing is written to a
\* connection by any other session and its buffer is empty; the step that
\* accepts it writes the ServerInfo to the empty buffer; and while the
\* send of the ServerInfo is pending, whatever other sessions write to the
\* connection goes behind it.
C22_WelcomeFirst ==
    [][\A ws \in Conns :
         /\ pc[ws] = "auth_recv" =>
              /\ outbox[ws] = <<>>
              /\ \A f \in NewFrames(ws) : f.by = ws
              /\ pc'[ws] = "welcome_send" => outbox'[ws] = <<Frame(ServerInfo, ws)>>
         /\ pc'[ws] = "welcome_send" => pc[ws] \in {"auth_recv", "welcome_send"}
         /\ (pc[ws] = "welcome_send" /\ pc'[ws] = "welcome_send") =>
              /\ Len(outbox'[ws]) >= 1
              /\ outbox'[ws][1] = Frame(ServerInfo, ws)]_vars

\* While the send of a connection's ServerInfo is pending, another session
\* has forwarded a Direct to it: the Direct is behind the ServerInfo.
C22_Witness ==
    \E ws, c \in Conns :
        /\ ws # c
        /\ pc[ws] = "welcome_send" /\ pc[c] = "msg_send"
        /\ CompleteDirect(message[c])
        /\ outbox[ws] = <<Frame(ServerInfo, ws), Frame(message[c], c)>>


\* The envelopes that routing produces.
RoutedTypes == {"AGENT_MESSAGE", "BROADCAST_MESSAGE", "LIST_AGENTS_RESPONSE"}

\* C23: only authenticated sessions are routed.  A Direct, Broadcast or
\* ListResponse is written only by a session in the Registered state; a
\* session becomes Registered only from the send of its ServerInfo, which
\* it enters only in the step that processes a first-message Register
\* with a non-empty agent_id and the shared secret as auth_token; and a
\* session whose first message was rejected only closes.
C23_OnlyAuthenticatedRouted ==
    [][\A c \in Conns :
         /\ \A ws \in Conns : \A f \in NewFrames(ws) :
              (f.by = c /\ f.env.type \in RoutedTypes) => Registered(c)
         /\ (Registered(c)' /\ ~Registered(c)) => pc[c] = "welcome_send"
         /\ (pc'[c] = "welcome_send" /\ pc[c] # "welcome_send") =>
              /\ \E m \in FirstMessages : AuthRecvMsg(c, m)
              /\ \A m \in FirstMessages :
                   AuthRecvMsg(c, m) =>
                       /\ IsRegister(m)
                       /\ Truthy(m.agent_id) /\ m.auth_token = SHARED_SECRET
         /\ pc[c] \in {"reject_send", "closed"} =>
              pc'[c] \in {"reject_send", "closed"}]_vars

\* A Registered session is forwarding a Direct while a connection that sent
\* a Register with a wrong token is being rejected.
C23_Witness ==
    \E c, d \in Conns :
        /\ pc[c] = "msg_send" /\ CompleteDirect(message[c]) /\ sending[c] # c
        /\ pc[d] = "reject_send"
        /\ outbox[d] = <<Frame(ServerError("invalid token"), d)>>


\* The step is a step of the receive loop of c that does not end its
\* session.
RoutingStep(c) ==
    /\ \/ \E m \in LoopMessages : LoopRecvMsg(c, m)
       \/ SendDone(c)
       \/ BroadcastResume(c)
    /\ pc'[c] # "closed"

\* C24: routing never modifies the registry.  A step of a receive loop,
\* whatever the message and whether or not a forward fails, leaves the
\* registry as it is unless it ends the session; the registry changes only
\* by the append of the entry of a connection whose Register is accepted
\* in that step, or by holes made in a step in which a session closes.
C24_RoutingKeepsRegistry ==
    [][/\ \A c \in Conns : RoutingStep(c) => CONNECTED_AGENTS' = CONNECTED_AGENTS
       /\ CONNECTED_AGENTS' # CONNECTED_AGENTS =>
            \E c \in Conns :
                \/ /\ pc[c] = "auth_recv" /\ pc'[c] = "welcome_send"
                   /\ CONNECTED_AGENTS' =
                          Append(CONNECTED_AGENTS, [key |-> agent_id'[c], value |-> c])
                \/ /\ pc[c] # "closed" /\ pc'[c] = "closed"
                   /\ Len(CONNECTED_AGENTS') = Len(CONNECTED_AGENTS)
                   /\ \A i \in 1..Len(CONNECTED_AGENTS) :
                        CONNECTED_AGENTS'[i] \in {CONNECTED_AGENTS[i], Hole}]_vars

\* Two messages have been routed, the second a Direct whose forward
\* failed because the receiver's transport is closed; the registry holds
\* the two entries that the registrations made, and nothing else.
C24_Witness ==
    \E c \in Conns :
        /\ nrecv = 2
        /\ pc[c] = "msg_send" /\ CompleteDirect(message[c])
        /\ outbox[c] = <<Frame(ServerError("internal error"), c)>>
        /\ Len(CONNECTED_AGENTS) = 2 /\ Entries = {1, 2}
        /\ \E i \in Entries :
             /\ CONNECTED_AGENTS[i].key = message[c].receiver_id
             /\ ~open[CONNECTED_AGENTS[i].value]

====
